---- MODULE Spec2Model ----
(***************************************************************************)
(* A model of zig-toolchain (src/main.go): the Version value type, its     *)
(* parser and order, the reconciliation of the remote index, the tarball   *)
(* directory and the current-install directory into AppState.Items, and    *)
(* the download / activate commands.                                       *)
(*                                                                         *)
(* A Go string is modelled as a sequence of one-character strings, so that *)
(* strings.Split, strings.Join, strconv.ParseInt and fmt.Sprintf are       *)
(* computed on the text itself.                                            *)
(***************************************************************************)
EXTENDS Integers, Sequences, FiniteSets, TLC

VARIABLES
  index,        \* the remote index: catalog key -> ZigIndexEntry
  tarballsDir,  \* names of the files in ~/.zig-toolchain/tarballs
  currentDir,   \* entries (name, isDir) of ~/.zig-toolchain/current
  symlink,      \* ~/.local/bin/zig: whether it exists and its target
  items,        \* AppState.Items
  pc,           \* position of run()
  exit,         \* how the process ended
  lastCmd,      \* what the command handler did
  inp,          \* input of a pure function under check
  out           \* its result

vars == <<index, tarballsDir, currentDir, symlink, items, pc, exit, lastCmd, inp, out>>

----------------------------------------------------------------------------
(* Bounds of the model. *)

\* Largest number used for a major / minor / patch / build component.
MaxNum == 1
\* Largest total number of index records, tarball-directory entries and
\* current-install-directory entries of the world a run starts in.
MaxObjects == 3
\* Largest number of dot-separated segments in a generated version text.
MaxDotSegs == 4
\* Largest build number of the dev Versions that are compared.
MaxBuild == 1

----------------------------------------------------------------------------
(* Strings. *)

\* The characters of the model in ASCII order.
AsciiOrder ==
  << "+", "-", ".", "/", "0", "1", "2", "3", "4", "5", "6", "7", "8", "9",
     "_", "a", "b", "c", "d", "e", "f", "g", "h", "i", "j", "k", "l", "m",
     "n", "o", "p", "q", "r", "s", "t", "u", "v", "w", "x", "y", "z" >>

Ord(c) == CHOOSE i \in 1..Len(AsciiOrder) : AsciiOrder[i] = c

Digits == <<"0", "1", "2", "3", "4", "5", "6", "7", "8", "9">>

IsDigit(c) == \E i \in 1..10 : Digits[i] = c

DigitVal(c) == (CHOOSE i \in 1..10 : Digits[i] = c) - 1

\* Position of the first occurrence of character sep in s at or after i, 0 if none.
RECURSIVE IndexFrom(_, _, _)
IndexFrom(s, sep, i) ==
  IF i > Len(s) THEN 0
  ELSE IF s[i] = sep THEN i
  ELSE IndexFrom(s, sep, i + 1)

\* strings.Split(s, sep) for a one-character separator.
RECURSIVE Split(_, _)
Split(s, sep) ==
  LET i == IndexFrom(s, sep, 1)
  IN  IF i = 0 THEN <<s>>
      ELSE <<SubSeq(s, 1, i - 1)>> \o Split(SubSeq(s, i + 1, Len(s)), sep)

\* strings.Join(parts, sep).
RECURSIVE Join(_, _)
Join(parts, sep) ==
  IF Len(parts) = 0 THEN <<>>
  ELSE IF Len(parts) = 1 THEN parts[1]
  ELSE parts[1] \o sep \o Join(Tail(parts), sep)

\* strings.HasPrefix(s, p).
HasPrefix(s, p) == Len(s) >= Len(p) /\ SubSeq(s, 1, Len(p)) = p

\* fmt.Sprintf("%d", n) for n >= 0.
RECURSIVE Itoa(_)
Itoa(n) ==
  IF n < 10 THEN <<Digits[n + 1]>>
  ELSE Itoa(n \div 10) \o <<Digits[(n % 10) + 1]>>

\* Lexicographic byte order on strings, the order os.ReadDir lists names in.
RECURSIVE StrLess(_, _)
StrLess(s, t) ==
  IF Len(t) = 0 THEN FALSE
  ELSE IF Len(s) = 0 THEN TRUE
  ELSE IF s[1] = t[1] THEN StrLess(Tail(s), Tail(t))
  ELSE Ord(s[1]) < Ord(t[1])

----------------------------------------------------------------------------
(* strconv.ParseInt(s, 10, 32). *)

\* The largest value of bitSize 32.
Int32Max == 2147483647
Int32Min == -Int32Max - 1

\* The magnitude of a digit string, accumulated left to right: -1 stands for
\* exactly Int32Max + 1 and -2 for anything larger.
RECURSIVE DigitsValue(_, _)
DigitsValue(s, acc) ==
  IF Len(s) = 0 THEN acc
  ELSE LET d == DigitVal(s[1])
           next == IF acc < 0 \/ acc > Int32Max \div 10 THEN -2
                   ELSE IF acc = Int32Max \div 10 /\ d > 7
                     THEN (IF d = 8 THEN -1 ELSE -2)
                   ELSE acc * 10 + d
       IN  DigitsValue(Tail(s), next)

\* The pair (value, err): a syntax error yields 0, a range error the nearest
\* 32-bit value.
ParseInt(s) ==
  LET signed == Len(s) > 0 /\ s[1] \in {"+", "-"}
      neg    == Len(s) > 0 /\ s[1] = "-"
      body   == IF signed THEN Tail(s) ELSE s
  IN  IF Len(body) = 0 \/ \E i \in 1..Len(body) : ~IsDigit(body[i])
        THEN [val |-> 0, err |-> TRUE]
      ELSE LET n == DigitsValue(body, 0)
           IN  IF neg
                 THEN IF n = -2 THEN [val |-> Int32Min, err |-> TRUE]
                      ELSE IF n = -1 THEN [val |-> Int32Min, err |-> FALSE]
                      ELSE [val |-> -n, err |-> FALSE]
               ELSE IF n < 0 THEN [val |-> Int32Max, err |-> TRUE]
               ELSE [val |-> n, err |-> FALSE]

----------------------------------------------------------------------------
(* Version. *)

\* Version{}: the zero value.
ZeroVersion ==
  [Major |-> 0, Minor |-> 0, Patch |-> 0, Dev |-> FALSE, Build |-> 0, Commit |-> <<>>]

\* Version.equal
equal(v, other) ==
  IF v.Dev \/ other.Dev
    THEN IF ~(v.Dev /\ other.Dev) THEN FALSE
         ELSE v.Major = other.Major /\ v.Minor = other.Minor
              /\ v.Patch = other.Patch /\ v.Build = other.Build
  ELSE v.Major = other.Major /\ v.Minor = other.Minor /\ v.Patch = other.Patch

\* Version.lessThan with the build numbers of two dev Versions compared by <=.
lessThanBuildLeq(v, other) ==
  IF v.Major = other.Major
    THEN IF v.Minor = other.Minor
      THEN IF v.Patch = other.Patch
        THEN IF v.Dev /\ other.Dev THEN v.Build <= other.Build
             ELSE IF v.Dev /\ ~other.Dev THEN FALSE
             ELSE IF ~v.Dev /\ other.Dev THEN TRUE
             ELSE FALSE
        ELSE v.Patch < other.Patch
      ELSE v.Minor < other.Minor
    ELSE v.Major < other.Major

\* Version.lessThan
lessThan(v, other) ==
  IF v.Major = other.Major
    THEN IF v.Minor = other.Minor
      THEN IF v.Patch = other.Patch
        THEN IF v.Dev /\ other.Dev THEN v.Build < other.Build
             ELSE IF v.Dev /\ ~other.Dev THEN FALSE
             ELSE IF ~v.Dev /\ other.Dev THEN TRUE
             ELSE FALSE
        ELSE v.Patch < other.Patch
      ELSE v.Minor < other.Minor
    ELSE v.Major < other.Major

\* Version.moreThan
moreThan(v, other) == ~lessThan(v, other)

\* ParseVersion: kind is "ok" (a Version and a nil error), "err" (nil and an
\* error) or "panic" (an index out of range aborts the process).
ParseVersion(v) ==
  LET sp  == Split(v, "-")
      sp2 == Split(sp[1], ".")
  IN  IF Len(sp2) # 3 THEN [kind |-> "err", ver |-> ZeroVersion]
      ELSE
        LET major == ParseInt(sp2[1])
            minor == ParseInt(sp2[2])
            patch == ParseInt(sp2[3])
            base  == [ZeroVersion EXCEPT !.Major = major.val,
                                         !.Minor = minor.val,
                                         !.Patch = patch.val]
        IN  IF patch.err THEN [kind |-> "err", ver |-> ZeroVersion]
            ELSE IF Len(sp) > 1
              THEN LET dot == Split(sp[2], ".")
                   IN  IF Len(dot) < 2 THEN [kind |-> "panic", ver |-> ZeroVersion]
                       ELSE
                         LET sp3   == Split(dot[2], "+")
                             build == ParseInt(sp3[1])
                         IN  IF build.err THEN [kind |-> "err", ver |-> ZeroVersion]
                             ELSE IF Len(sp3) < 2
                               THEN [kind |-> "panic", ver |-> ZeroVersion]
                             ELSE [kind |-> "ok",
                                   ver  |-> [base EXCEPT !.Dev = TRUE,
                                                         !.Build = build.val,
                                                         !.Commit = sp3[2]]]
            ELSE [kind |-> "ok", ver |-> base]

----------------------------------------------------------------------------
(* Host and paths. *)

\* runtime.GOOS and runtime.GOARCH of the build.
GOOS == "linux"
GOARCH == "amd64"

\* getHostOs: "panic" stands for panic("Invalid os!").
getHostOs(goos) ==
  CASE goos = "windows" -> <<"w","i","n","d","o","w","s">>
    [] goos = "darwin"  -> <<"m","a","c","o","s">>
    [] goos = "linux"   -> <<"l","i","n","u","x">>
    [] OTHER            -> <<"p","a","n","i","c">>

\* getHostArch: "panic" stands for panic("Invalid arch!").
getHostArch(goarch) ==
  CASE goarch = "386"   -> <<"x","8","6">>
    [] goarch = "amd64" -> <<"x","8","6","-","6","4">>
    [] goarch = "arm64" -> <<"a","a","r","c","h","6","4">>
    [] OTHER            -> <<"p","a","n","i","c">>

\* localDirPath("tarballs", name); the home directory prefix is left out.
TarballsPath(name) == <<"t", "/">> \o name

\* localDirPath("current", name).
CurrentPath(name) == <<"c", "/">> \o name

\* localTarballPathFromUrl
localTarballPathFromUrl(url) ==
  LET sp == Split(url, "/")
  IN  TarballsPath(sp[Len(sp)])

\* extractedDirForVersion
extractedDirForVersion(v, goos, goarch) ==
  LET fname == <<"z","i","g","-">> \o getHostOs(goos) \o <<"-">> \o getHostArch(goarch)
               \o <<"-">> \o Itoa(v.Major) \o <<".">> \o Itoa(v.Minor)
               \o <<".">> \o Itoa(v.Patch)
  IN  CurrentPath(IF v.Dev
                    THEN fname \o <<"-","d","e","v",".">> \o Itoa(v.Build)
                               \o <<"+">> \o v.Commit
                    ELSE fname)

\* path.Ext(name) for a name without "/": the suffix from the last dot.
RECURSIVE LastIndex(_, _, _)
LastIndex(s, c, i) ==
  IF i = 0 THEN 0
  ELSE IF s[i] = c THEN i
  ELSE LastIndex(s, c, i - 1)

PathExt(name) ==
  LET i == LastIndex(name, ".", Len(name))
  IN  IF i = 0 THEN <<>> ELSE SubSeq(name, i, Len(name))

----------------------------------------------------------------------------
(* The remote index. *)

\* The JSON tags of the per-host descriptors of ZigIndexEntry.
DescriptorTags ==
  { "x86_64-macos", "aarch64-macos", "x86_64-linux", "aarch64-linux",
    "x86-linux", "x86_64-windows", "aarch64-windows", "x86-windows" }

\* A nil *ZigIndexFileEntry.
NilFile == [present |-> FALSE, Tarball |-> <<>>]

\* ZigIndexEntry.GetFileEntryForHost: the descriptor of the host, NilFile when
\* the record has none; for a host pair outside the switch the code panics,
\* modelled as kind "panic".
GetFileEntryForHost(z, goos, goarch) ==
  LET os   == getHostOs(goos)
      arch == getHostArch(goarch)
      tag  == CASE os = getHostOs("darwin") /\ arch = getHostArch("arm64") -> "aarch64-macos"
                [] os = getHostOs("darwin") /\ arch = getHostArch("amd64") -> "x86_64-macos"
                [] os = getHostOs("linux") /\ arch = getHostArch("arm64") -> "aarch64-linux"
                [] os = getHostOs("linux") /\ arch = getHostArch("amd64") -> "x86_64-linux"
                [] os = getHostOs("linux") /\ arch = getHostArch("386") -> "x86-linux"
                [] os = getHostOs("windows") /\ arch = getHostArch("arm64") -> "aarch64-windows"
                [] os = getHostOs("windows") /\ arch = getHostArch("amd64") -> "x86_64-windows"
                [] os = getHostOs("windows") /\ arch = getHostArch("386") -> "x86-windows"
                [] OTHER -> "panic"
  IN  IF tag = "panic" THEN [kind |-> "panic", file |-> NilFile]
      ELSE [kind |-> "ok", file |-> z.Files[tag]]

----------------------------------------------------------------------------
(* AppState. *)

\* Item{}: the zero value.
ZeroItem ==
  [Version |-> ZeroVersion, Downloaded |-> FALSE, Current |-> FALSE,
   Indexed |-> FALSE, Master |-> FALSE, LocalPath |-> <<>>, RemoteUrl |-> <<>>]

\* AppState.GetItemByVersion: the index of the first Item whose Version equals
\* v, 0 when there is none.
RECURSIVE GetItemByVersionFrom(_, _, _)
GetItemByVersionFrom(its, v, i) ==
  IF i > Len(its) THEN 0
  ELSE IF equal(its[i].Version, v) THEN i
  ELSE GetItemByVersionFrom(its, v, i + 1)

GetItemByVersion(its, v) == GetItemByVersionFrom(its, v, 1)

----------------------------------------------------------------------------
(* Reconciliation: the three folds of run() and the sort. *)

\* All orders a set can be iterated in.
Orders(S) ==
  { f \in [1..Cardinality(S) -> S] : \A i, j \in 1..Cardinality(S) : f[i] = f[j] => i = j }

\* IndexedItem with Master set in the other branch of the test of the version
\* string.
IndexedItemKeyIsMaster(k, v, fileEntry, version) ==
  [ZeroItem EXCEPT !.Master = (v.Version = <<>>),
                   !.Version = version,
                   !.Indexed = TRUE,
                   !.RemoteUrl = fileEntry.Tarball,
                   !.LocalPath = localTarballPathFromUrl(fileEntry.Tarball)]

\* The Item the remote index fold builds from the record (k, v), its host
\* descriptor and its parsed version.
IndexedItem(k, v, fileEntry, version) ==
  [ZeroItem EXCEPT !.Master = (v.Version # <<>>),
                   !.Version = version,
                   !.Indexed = TRUE,
                   !.RemoteUrl = fileEntry.Tarball,
                   !.LocalPath = localTarballPathFromUrl(fileEntry.Tarball)]

\* The version string of the record (k, v): its own, or the catalog key.
RecordVersionString(k, v) == IF v.Version = <<>> THEN k ELSE v.Version

\* The remote index fold over the records in the order the map is iterated in.
RECURSIVE IndexFold(_, _, _)
IndexFold(its, idx, order) ==
  IF Len(order) = 0 THEN [kind |-> "ok", items |-> its]
  ELSE
    LET k  == Head(order)
        v  == idx[k]
        fe == GetFileEntryForHost(v, GOOS, GOARCH)
    IN  IF fe.kind = "panic" THEN [kind |-> "panic", items |-> its]
        ELSE IF ~fe.file.present THEN IndexFold(its, idx, Tail(order))
        ELSE
          LET parsed == ParseVersion(RecordVersionString(k, v))
          IN  IF parsed.kind # "ok" THEN [kind |-> "panic", items |-> its]
              ELSE IndexFold(Append(its, IndexedItem(k, v, fe.file, parsed.ver)),
                             idx, Tail(order))

\* os.ReadDir: the names of a directory sorted by filename.
RECURSIVE SortedNames(_)
SortedNames(S) ==
  IF S = {} THEN <<>>
  ELSE LET m == CHOOSE x \in S : \A y \in S \ {x} : StrLess(x, y)
       IN  <<m>> \o SortedNames(S \ {m})

\* The version tag of a directory or archive name: the segments from index 3
\* of the name split on "-"; a name with fewer than three segments makes
\* sp[3:] panic (slice bounds out of range).
VersionTagOf(name) ==
  LET sp == Split(name, "-")
  IN  IF Len(sp) < 3 THEN [kind |-> "panic", tag |-> <<>>]
      ELSE [kind |-> "ok", tag |-> Join(SubSeq(sp, 4, Len(sp)), <<"-">>)]

\* The name of an archive without its last two dot-separated segments.
StripTwoExtensions(name) ==
  LET sp == Split(name, ".")
  IN  Join(SubSeq(sp, 1, Len(sp) - 2), <<".">>)

\* TarballMatched without the assignment to LocalPath.
TarballMatchedKeepsPath(item, name) == [item EXCEPT !.Downloaded = TRUE]

\* The local tarball fold acting on a matched Item.
TarballMatched(item, name) ==
  [item EXCEPT !.Downloaded = TRUE, !.LocalPath = TarballsPath(name)]

\* TarballItem without Downloaded set.
TarballItemNotDownloaded(name, version) ==
  [ZeroItem EXCEPT !.Indexed = FALSE,
                   !.LocalPath = TarballsPath(name),
                   !.Version = version]

\* The Item the local tarball fold creates for an archive no Item matches.
TarballItem(name, version) ==
  [ZeroItem EXCEPT !.Downloaded = TRUE,
                   !.Indexed = FALSE,
                   !.LocalPath = TarballsPath(name),
                   !.Version = version]

\* The local tarball fold over the directory listing dir.
RECURSIVE TarballFold(_, _)
TarballFold(its, dir) ==
  IF Len(dir) = 0 THEN [kind |-> "ok", items |-> its]
  ELSE
    LET name == Head(dir)
    IN  IF PathExt(name) # <<".", "x", "z">> THEN TarballFold(its, Tail(dir))
        ELSE
          LET tag == VersionTagOf(StripTwoExtensions(name))
              parsed == IF tag.kind = "ok" THEN ParseVersion(tag.tag)
                        ELSE [kind |-> "panic", ver |-> ZeroVersion]
              i == GetItemByVersion(its, parsed.ver)
          IN  IF parsed.kind # "ok" THEN [kind |-> "panic", items |-> its]
              ELSE IF i > 0
                THEN TarballFold([its EXCEPT ![i] = TarballMatched(its[i], name)],
                                 Tail(dir))
              ELSE TarballFold(Append(its, TarballItem(name, parsed.ver)), Tail(dir))

\* CurrentMatched storing a fresh Item in place of the matched one.
CurrentMatchedFresh(item) ==
  [ZeroItem EXCEPT !.Version = item.Version, !.Downloaded = TRUE, !.Current = TRUE]

\* The current-install fold acting on a matched Item.
CurrentMatched(item) == [item EXCEPT !.Current = TRUE]

\* The listing of the current-install directory, sorted by name.
SortedEntries(S) ==
  LET names == SortedNames({e.name : e \in S})
  IN  [i \in 1..Len(names) |-> CHOOSE e \in S : e.name = names[i]]

\* CurrentFold leaving the Items as they are when no Item has the version of
\* the directory.
RECURSIVE CurrentFoldLenient(_, _)
CurrentFoldLenient(its, dir) ==
  IF Len(dir) = 0 THEN [kind |-> "ok", items |-> its]
  ELSE
    LET e == Head(dir)
    IN  IF ~(HasPrefix(e.name, <<"z", "i", "g">>) /\ e.isDir)
          THEN CurrentFoldLenient(its, Tail(dir))
        ELSE
          LET tag == VersionTagOf(e.name)
              parsed == IF tag.kind = "ok" THEN ParseVersion(tag.tag)
                        ELSE [kind |-> "panic", ver |-> ZeroVersion]
              i == GetItemByVersion(its, parsed.ver)
          IN  IF parsed.kind # "ok" THEN [kind |-> "panic", items |-> its]
              ELSE IF i > 0
                THEN [kind |-> "ok", items |-> [its EXCEPT ![i] = CurrentMatched(its[i])]]
              ELSE [kind |-> "ok", items |-> its]

\* CurrentFold marking every Item that has the version of the directory.
RECURSIVE CurrentFoldMarksAll(_, _)
CurrentFoldMarksAll(its, dir) ==
  IF Len(dir) = 0 THEN [kind |-> "ok", items |-> its]
  ELSE
    LET e == Head(dir)
    IN  IF ~(HasPrefix(e.name, <<"z", "i", "g">>) /\ e.isDir)
          THEN CurrentFoldMarksAll(its, Tail(dir))
        ELSE
          LET tag == VersionTagOf(e.name)
              parsed == IF tag.kind = "ok" THEN ParseVersion(tag.tag)
                        ELSE [kind |-> "panic", ver |-> ZeroVersion]
              i == GetItemByVersion(its, parsed.ver)
          IN  IF parsed.kind # "ok" THEN [kind |-> "panic", items |-> its]
              ELSE IF i > 0
                THEN [kind |-> "ok",
                      items |-> [j \in 1..Len(its) |->
                                   IF equal(its[j].Version, parsed.ver)
                                     THEN CurrentMatched(its[j]) ELSE its[j]]]
              ELSE [kind |-> "panic", items |-> its]

\* The current-install fold: only the first "zig"-prefixed directory counts.
RECURSIVE CurrentFold(_, _)
CurrentFold(its, dir) ==
  IF Len(dir) = 0 THEN [kind |-> "ok", items |-> its]
  ELSE
    LET e == Head(dir)
    IN  IF ~(HasPrefix(e.name, <<"z", "i", "g">>) /\ e.isDir)
          THEN CurrentFold(its, Tail(dir))
        ELSE
          LET tag == VersionTagOf(e.name)
              parsed == IF tag.kind = "ok" THEN ParseVersion(tag.tag)
                        ELSE [kind |-> "panic", ver |-> ZeroVersion]
              i == GetItemByVersion(its, parsed.ver)
          IN  IF parsed.kind # "ok" THEN [kind |-> "panic", items |-> its]
              ELSE IF i > 0
                THEN [kind |-> "ok", items |-> [its EXCEPT ![i] = CurrentMatched(its[i])]]
              ELSE [kind |-> "panic", items |-> its]

\* SortLess for an ascending sort.
SortLessAscending(a, b) == ~lessThan(b.Version, a.Version)

\* The comparison sort.Slice is given.
SortLess(a, b) == moreThan(a.Version, b.Version)

\* The results sort.Slice may leave: the permutations of its in which no Item
\* comes before one it is strictly behind; the sort is not stable, so Items
\* that compare equal may end in any order.
SortOutcomes(its) ==
  { [i \in 1..Len(its) |-> its[p[i]]] : p \in
      { q \in Orders(1..Len(its)) :
          \A i, j \in 1..Len(its) :
            i < j => SortLess(its[q[i]], its[q[j]]) } }

----------------------------------------------------------------------------
(* The worlds a run starts in. *)

\* The text of a Version: MAJOR.MINOR.PATCH, with -dev.BUILD+COMMIT when dev.
VersionText(v) ==
  LET triple == Itoa(v.Major) \o <<".">> \o Itoa(v.Minor) \o <<".">> \o Itoa(v.Patch)
  IN  IF v.Dev THEN triple \o <<"-","d","e","v",".">> \o Itoa(v.Build) \o <<"+">> \o v.Commit
      ELSE triple

Release(major, minor, patch) ==
  [ZeroVersion EXCEPT !.Major = major, !.Minor = minor, !.Patch = patch]

DevBuild(major, minor, patch, build, commit) ==
  [Release(major, minor, patch) EXCEPT !.Dev = TRUE, !.Build = build, !.Commit = commit]

\* The versions the index, the archives and the installs of a world name: the
\* releases 0.m.0 and two dev builds of the newest release that have the same
\* build number and different commits.
WorldVersions ==
  { Release(0, m, 0) : m \in 0..MaxNum }
    \cup { DevBuild(0, MaxNum, 0, 1, c) : c \in { <<"a">>, <<"b">> } }

WorldTexts == { VersionText(v) : v \in WorldVersions }

MasterKey == <<"m","a","s","t","e","r">>

\* The archive name upstream gives a version text.
ArchiveName(text) ==
  <<"z","i","g","-","l","i","n","u","x","-","x","8","6","_","6","4","-">> \o text
    \o <<".","t","a","r",".","x","z">>

\* A ZigIndexEntry whose only descriptor, if any, is the one of x86_64-linux.
IndexEntry(version, file) ==
  [Version |-> version,
   Files   |-> [t \in DescriptorTags |-> IF t = "x86_64-linux" THEN file ELSE NilFile]]

FileAt(dir, text) == [present |-> TRUE, Tarball |-> dir \o ArchiveName(text)]

\* The records an index is made of: a release or dev record keyed by its
\* version text with no version field, and a "master" record with a version
\* field (empty when upstream left it out); each with or without a descriptor
\* for the host. The index is whatever JSON the server sends, so the oldest
\* release may also come as a record that repeats its key in a version field.
IndexRecords ==
  UNION { { [key |-> t, entry |-> IndexEntry(<<>>, f)] :
              f \in { FileAt(<<"d", "/">>, t), NilFile } } : t \in WorldTexts }
    \cup
  UNION { { [key |-> MasterKey, entry |-> IndexEntry(t, f)] :
              f \in { FileAt(<<"b", "/">>, IF t = <<>> THEN MasterKey ELSE t), NilFile } } :
          t \in WorldTexts \cup { <<>> } }
    \cup
  { [key |-> VersionText(Release(0, 0, 0)),
     entry |-> IndexEntry(VersionText(Release(0, 0, 0)),
                          FileAt(<<"d", "/">>, VersionText(Release(0, 0, 0))))] }

\* The names the tarball directory may hold: the upstream archive names, an
\* archive of another host, a file that is no archive and an archive whose
\* name has no version tag.
TarballNames ==
  { ArchiveName(t) : t \in WorldTexts }
    \cup { <<"z","i","g","-","m","a","c","o","s","-","a","a","r","c","h","6","4","-">>
             \o VersionText(Release(0, 0, 0)) \o <<".","t","a","r",".","x","z">>,
           <<"n","o","t","e","s">>,
           <<"x",".","t","a","r",".","x","z">> }

\* The entries the current-install directory may hold: the directories the
\* upstream archives unpack to, a "zig"-prefixed regular file and a directory
\* without the prefix.
CurrentEntries ==
  { [name |-> <<"z","i","g","-","l","i","n","u","x","-","x","8","6","_","6","4","-">> \o t,
     isDir |-> TRUE] : t \in WorldTexts }
    \cup { [name |-> <<"z","i","g">>, isDir |-> FALSE],
           [name |-> <<"l","i","b">>, isDir |-> TRUE] }

\* The subsets of S with at most k elements.
RECURSIVE UpTo(_, _)
UpTo(S, k) ==
  IF k = 0 THEN { {} }
  ELSE LET prev == UpTo(S, k - 1)
       IN  prev \cup { s \cup {x} : s \in prev, x \in S }

\* The index a set of records with distinct keys makes.
IndexOf(R) == [k \in { r.key : r \in R } |-> (CHOOSE r \in R : r.key = k).entry]

NoInput == <<>>

InitWorld ==
  \E R \in UpTo(IndexRecords, MaxObjects) :
    /\ \A r1, r2 \in R : r1.key = r2.key => r1 = r2
    /\ index = IndexOf(R)
    /\ \E T \in UpTo(TarballNames, MaxObjects - Cardinality(R)) :
         /\ tarballsDir = T
         /\ \E C \in UpTo(CurrentEntries, MaxObjects - Cardinality(R) - Cardinality(T)) :
              currentDir = C

Init ==
  /\ InitWorld
  /\ symlink \in { [exists |-> FALSE, target |-> <<>>],
                   [exists |-> TRUE, target |-> <<"o", "l", "d">>] }
  /\ items = <<>>
  /\ pc = "index"
  /\ exit = "running"
  /\ lastCmd = [cmd |-> "none", target |-> 0, outcome |-> "none"]
  /\ inp = NoInput
  /\ out = NoInput

----------------------------------------------------------------------------
(* run(): reconciliation. *)

Panic ==
  /\ pc' = "done"
  /\ exit' = "panic"

\* run(), lines 549-585: the remote index fold, in any iteration order of the map.
RemoteIndexFold ==
  /\ pc = "index"
  /\ \E order \in Orders(DOMAIN index) :
       LET r == IndexFold(items, index, order)
       IN  /\ items' = r.items
           /\ IF r.kind = "ok" THEN pc' = "tarballs" /\ exit' = exit /\ lastCmd' = lastCmd
              ELSE Panic /\ lastCmd' = [lastCmd EXCEPT !.outcome = "index-fold-panic"]
  /\ UNCHANGED <<index, tarballsDir, currentDir, symlink, inp, out>>

\* run(), lines 587-624: the local tarball fold.
LocalTarballFold ==
  /\ pc = "tarballs"
  /\ LET r == TarballFold(items, SortedNames(tarballsDir))
     IN  /\ items' = r.items
         /\ IF r.kind = "ok" THEN pc' = "current" /\ exit' = exit /\ lastCmd' = lastCmd
            ELSE Panic /\ lastCmd' = [lastCmd EXCEPT !.outcome = "tarball-fold-panic"]
  /\ UNCHANGED <<index, tarballsDir, currentDir, symlink, inp, out>>

\* run(), lines 626-656: the current-install fold.
CurrentInstallFold ==
  /\ pc = "current"
  /\ LET r == CurrentFold(items, SortedEntries(currentDir))
     IN  /\ items' = r.items
         /\ IF r.kind = "ok" THEN pc' = "sort" /\ exit' = exit /\ lastCmd' = lastCmd
            ELSE Panic /\ lastCmd' = [lastCmd EXCEPT !.outcome = "current-fold-panic"]
  /\ UNCHANGED <<index, tarballsDir, currentDir, symlink, inp, out>>

\* run(), lines 658-663: the sort.
SortItems ==
  /\ pc = "sort"
  /\ items' \in SortOutcomes(items)
  /\ pc' = "command"
  /\ UNCHANGED <<index, tarballsDir, currentDir, symlink, exit, lastCmd, inp, out>>

----------------------------------------------------------------------------
(* run(): the commands. *)

\* The ways downloadTarball may end: the archive is written; the fetch fails
\* and no file is made; the write fails after os.Create made the file.
DownloadResults == { "written", "fetch-failed", "write-failed" }

\* The file name of a path: its last "/"-separated segment.
BaseName(path) == LET sp == Split(path, "/") IN sp[Len(sp)]

\* commandDownloadItem with the test of Indexed before the test of Downloaded.
commandDownloadItemIndexedFirst(its, i, dl) ==
  IF ~its[i].Indexed
    THEN [items |-> its, made |-> {}, outcome |-> "not-indexed", exit |-> "exit1"]
  ELSE IF its[i].Downloaded
    THEN [items |-> its, made |-> {}, outcome |-> "already-downloaded", exit |-> "return"]
  ELSE IF dl = "fetch-failed"
    THEN [items |-> its, made |-> {}, outcome |-> "download-failed", exit |-> "panic"]
  ELSE IF dl = "write-failed"
    THEN [items |-> its, made |-> { BaseName(its[i].LocalPath) },
          outcome |-> "download-failed", exit |-> "panic"]
  ELSE [items |-> [its EXCEPT ![i].Downloaded = TRUE],
        made |-> { BaseName(its[i].LocalPath) },
        outcome |-> "downloaded", exit |-> "return"]

\* commandDownloadItem on Items[i], downloadTarball ending as dl: the Items,
\* the files downloadTarball made, what the handler did and, when the process
\* ends inside the handler, how ("return" when the handler returns).
commandDownloadItem(its, i, dl) ==
  IF its[i].Downloaded
    THEN [items |-> its, made |-> {}, outcome |-> "already-downloaded", exit |-> "return"]
  ELSE IF ~its[i].Indexed
    THEN [items |-> its, made |-> {}, outcome |-> "not-indexed", exit |-> "exit1"]
  ELSE IF dl = "fetch-failed"
    THEN [items |-> its, made |-> {}, outcome |-> "download-failed", exit |-> "panic"]
  ELSE IF dl = "write-failed"
    THEN [items |-> its, made |-> { BaseName(its[i].LocalPath) },
          outcome |-> "download-failed", exit |-> "panic"]
  ELSE [items |-> [its EXCEPT ![i].Downloaded = TRUE],
        made |-> { BaseName(its[i].LocalPath) },
        outcome |-> "downloaded", exit |-> "return"]

\* The index of the first Item with Master set, 0 when there is none.
RECURSIVE FirstMasterFrom(_, _)
FirstMasterFrom(its, i) ==
  IF i > Len(its) THEN 0
  ELSE IF its[i].Master THEN i
  ELSE FirstMasterFrom(its, i + 1)

FirstMaster(its) == FirstMasterFrom(its, 1)

\* The texts given as os.Args[2]: "master", the version texts of the world, a
\* text with the wrong number of segments and a dev tag without a build.
ArgTexts ==
  WorldTexts \cup { MasterKey, <<"x">>, <<"0",".","0",".","0","-","d","e","v">> }

\* A process that ends: a handler that returns lets run() and main() return,
\* which is exit status 0.
Ends(how) ==
  /\ pc' = "done"
  /\ exit' = IF how = "return" THEN "exit0" ELSE how

\* run(), lines 666-667: list.
CommandList ==
  /\ pc = "command"
  /\ lastCmd' = [cmd |-> "list", target |-> 0, outcome |-> "listed"]
  /\ Ends("return")
  /\ UNCHANGED <<index, tarballsDir, currentDir, symlink, items, inp, out>>

\* run(), lines 668-669: show.
CommandShow ==
  /\ pc = "command"
  /\ lastCmd' = [cmd |-> "show", target |-> 0, outcome |-> "listed"]
  /\ Ends("return")
  /\ UNCHANGED <<index, tarballsDir, currentDir, symlink, items, inp, out>>

\* The command handlers ending without touching the Items or the disk.
EndsUnchanged(cmd, target, outcome, how) ==
  /\ lastCmd' = [cmd |-> cmd, target |-> target, outcome |-> outcome]
  /\ Ends(how)
  /\ UNCHANGED <<tarballsDir, currentDir, symlink, items>>

\* commandDownloadItem called by a download command on Items[i].
DownloadTarget(i) ==
  \E dl \in DownloadResults :
    LET r == commandDownloadItem(items, i, dl)
    IN  /\ items' = r.items
        /\ tarballsDir' = tarballsDir \cup r.made
        /\ lastCmd' = [cmd |-> "download", target |-> i, outcome |-> r.outcome]
        /\ Ends(r.exit)
        /\ UNCHANGED <<currentDir, symlink>>

\* run(), lines 670-687: download without a version argument.
CommandDownloadUsage ==
  /\ pc = "command"
  /\ EndsUnchanged("download", 0, "usage", "exit0")
  /\ UNCHANGED <<index, inp, out>>

\* run(), lines 677-678 and commandDownloadMaster.
CommandDownloadMaster ==
  /\ pc = "command"
  /\ LET i == FirstMaster(items)
     IN  IF i = 0 THEN EndsUnchanged("download", 0, "master-not-found", "panic")
         ELSE DownloadTarget(i)
  /\ UNCHANGED <<index, inp, out>>

\* run(), lines 679-687 and commandDownloadVersion.
CommandDownloadVersion ==
  /\ pc = "command"
  /\ \E arg \in ArgTexts \ { MasterKey } :
       LET parsed == ParseVersion(arg)
           i == GetItemByVersion(items, parsed.ver)
       IN  IF parsed.kind = "panic" THEN EndsUnchanged("download", 0, "parse-panic", "panic")
           ELSE IF parsed.kind = "err"
             THEN EndsUnchanged("download", 0, "invalid-version", "exit1")
           ELSE IF i = 0 THEN EndsUnchanged("download", 0, "invalid-version", "exit1")
           ELSE DownloadTarget(i)
  /\ UNCHANGED <<index, inp, out>>

\* What the archive at a path unpacks to: upstream archives hold one
\* directory, named like the archive without its two extensions.
Unpacked(path) == { [name |-> StripTwoExtensions(BaseName(path)), isDir |-> TRUE] }

\* The target of the symlink activation makes for a Version.
LinkTarget(v) == extractedDirForVersion(v, GOOS, GOARCH) \o <<"/", "z", "i", "g">>

\* commandActivateItem without the test of Current of lines 468-471.
ActivateTargetAlways(i) ==
  \E dl \in DownloadResults :
    LET r == IF ~items[i].Downloaded THEN commandDownloadItem(items, i, dl)
             ELSE [items |-> items, made |-> {}, outcome |-> "none", exit |-> "return"]
    IN  /\ items' = r.items
        /\ tarballsDir' = tarballsDir \cup r.made
        /\ IF r.exit = "return"
             THEN /\ pc' = "clear"
                  /\ exit' = exit
                  /\ lastCmd' = [cmd |-> "activate", target |-> i, outcome |-> "archive-ready"]
             ELSE /\ Ends(r.exit)
                  /\ lastCmd' = [cmd |-> "activate", target |-> i, outcome |-> r.outcome]
        /\ UNCHANGED <<currentDir, symlink>>

\* commandActivateItem on Items[i], lines 467-475: an Item that is current
\* ends the process with status 0; otherwise the archive is made available,
\* by commandDownloadItem when the Item is not downloaded.
ActivateTarget(i) ==
  IF items[i].Current THEN EndsUnchanged("activate", i, "already-active", "exit0")
  ELSE
    \E dl \in DownloadResults :
      LET r == IF ~items[i].Downloaded THEN commandDownloadItem(items, i, dl)
               ELSE [items |-> items, made |-> {}, outcome |-> "none", exit |-> "return"]
      IN  /\ items' = r.items
          /\ tarballsDir' = tarballsDir \cup r.made
          /\ IF r.exit = "return"
               THEN /\ pc' = "clear"
                    /\ exit' = exit
                    /\ lastCmd' = [cmd |-> "activate", target |-> i, outcome |-> "archive-ready"]
               ELSE /\ Ends(r.exit)
                    /\ lastCmd' = [cmd |-> "activate", target |-> i, outcome |-> r.outcome]
          /\ UNCHANGED <<currentDir, symlink>>

\* run(), lines 689-694: activate without a version argument.
CommandActivateUsage ==
  /\ pc = "command"
  /\ EndsUnchanged("activate", 0, "usage", "exit0")
  /\ UNCHANGED <<index, inp, out>>

\* run(), lines 696-697 and commandActivateMaster.
CommandActivateMaster ==
  /\ pc = "command"
  /\ LET i == FirstMaster(items)
     IN  IF i = 0 THEN EndsUnchanged("activate", 0, "version-not-found", "exit1")
         ELSE ActivateTarget(i)
  /\ UNCHANGED <<index, inp, out>>

\* run(), lines 698-706 and commandActivateVersion.
CommandActivateVersion ==
  /\ pc = "command"
  /\ \E arg \in ArgTexts \ { MasterKey } :
       LET parsed == ParseVersion(arg)
           i == GetItemByVersion(items, parsed.ver)
       IN  IF parsed.kind = "panic" THEN EndsUnchanged("activate", 0, "parse-panic", "panic")
           ELSE IF parsed.kind = "err"
             THEN EndsUnchanged("activate", 0, "invalid-version", "exit1")
           ELSE IF i = 0 THEN EndsUnchanged("activate", 0, "version-not-found", "exit1")
           ELSE ActivateTarget(i)
  /\ UNCHANGED <<index, inp, out>>

\* commandActivateItem without os.RemoveAll: the directory keeps its entries.
ActivateClearKeeps ==
  /\ pc = "clear"
  /\ pc' = "extract"
  /\ UNCHANGED <<index, tarballsDir, currentDir, symlink, items, exit, lastCmd, inp, out>>

\* commandActivateItem, lines 477-478: os.RemoveAll of the current-install
\* directory and ensureDirectories.
ActivateClear ==
  /\ pc = "clear"
  /\ currentDir' = {}
  /\ pc' = "extract"
  /\ UNCHANGED <<index, tarballsDir, symlink, items, exit, lastCmd, inp, out>>

\* commandActivateItem, lines 481-488: tar -xf in the current-install
\* directory; a failure panics, with nothing unpacked or with what tar had
\* made before it failed.
ActivateExtract ==
  /\ pc = "extract"
  /\ \/ /\ currentDir' = currentDir \cup Unpacked(items[lastCmd.target].LocalPath)
        /\ pc' = "link"
        /\ UNCHANGED <<exit, lastCmd>>
     \/ /\ lastCmd' = [lastCmd EXCEPT !.outcome = "extract-failed"]
        /\ Panic
        /\ currentDir' \in { currentDir,
                             currentDir \cup Unpacked(items[lastCmd.target].LocalPath) }
  /\ UNCHANGED <<index, tarballsDir, symlink, items, inp, out>>

\* commandActivateItem, lines 490-503: the symlink is removed when it exists
\* and made anew; a failure of either panics.
ActivateLink ==
  /\ pc = "link"
  /\ \/ /\ symlink' = [exists |-> TRUE, target |-> LinkTarget(items[lastCmd.target].Version)]
        /\ lastCmd' = [lastCmd EXCEPT !.outcome = "activated"]
        /\ Ends("return")
     \/ /\ symlink.exists
        /\ UNCHANGED symlink
        /\ lastCmd' = [lastCmd EXCEPT !.outcome = "link-failed"]
        /\ Panic
     \/ /\ symlink' = [exists |-> FALSE, target |-> <<>>]
        /\ lastCmd' = [lastCmd EXCEPT !.outcome = "link-failed"]
        /\ Panic
  /\ UNCHANGED <<index, tarballsDir, currentDir, items, inp, out>>

\* run(), lines 527-544: no command or an unknown one prints the usage and
\* ends with status 0 before anything is read.
PrintUsageAndExit ==
  /\ pc = "index"
  /\ EndsUnchanged("none", 0, "usage", "exit0")
  /\ UNCHANGED <<index, inp, out>>

\* run(), lines 553-556: FetchIndex fails.
FetchIndexFails ==
  /\ pc = "index"
  /\ EndsUnchanged("none", 0, "fetch-index-failed", "panic")
  /\ UNCHANGED <<index, inp, out>>

Next ==
  \/ PrintUsageAndExit
  \/ FetchIndexFails
  \/ RemoteIndexFold
  \/ LocalTarballFold
  \/ CurrentInstallFold
  \/ SortItems
  \/ CommandList
  \/ CommandShow
  \/ CommandDownloadUsage
  \/ CommandDownloadMaster
  \/ CommandDownloadVersion
  \/ CommandActivateUsage
  \/ CommandActivateMaster
  \/ CommandActivateVersion
  \/ ActivateClear
  \/ ActivateExtract
  \/ ActivateLink

Spec == Init /\ [][Next]_vars

----------------------------------------------------------------------------
(* Runs of the program one after the other on the same machine: the index   *)
(* stays, the disk is what the last run left.                               *)

\* What a run remembers of the one before it: whether it was an activation
\* that completed, of which Version, whether the archive unpacked to one
\* directory named zig-<os>-<arch>-<version string>, and whether it replaced
\* another Version that the run before it had activated.
NoRunBefore ==
  [activated |-> FALSE, version |-> ZeroVersion, asNamed |-> FALSE, replaced |-> FALSE]

UnpacksAsNamed(path, v) ==
  \A e \in Unpacked(path) :
    /\ Unpacked(path) = {e}
    /\ e.isDir
    /\ LET sp == Split(e.name, "-")
       IN  /\ Len(sp) >= 4
           /\ sp[1] = <<"z", "i", "g">>
           /\ Join(SubSeq(sp, 4, Len(sp)), <<"-">>) = VersionText(v)

\* A machine with at most one object less than the single run is given.
InitWorldRuns ==
  \E R \in UpTo(IndexRecords, MaxObjects - 1) :
    /\ \A r1, r2 \in R : r1.key = r2.key => r1 = r2
    /\ index = IndexOf(R)
    /\ \E T \in UpTo(TarballNames, MaxObjects - 1 - Cardinality(R)) :
         /\ tarballsDir = T
         /\ \E C \in UpTo(CurrentEntries, MaxObjects - 1 - Cardinality(R) - Cardinality(T)) :
              currentDir = C

InitRuns ==
  /\ InitWorldRuns
  /\ symlink \in { [exists |-> FALSE, target |-> <<>>],
                   [exists |-> TRUE, target |-> <<"o", "l", "d">>] }
  /\ items = <<>>
  /\ pc = "index"
  /\ exit = "running"
  /\ lastCmd = [cmd |-> "none", target |-> 0, outcome |-> "none"]
  /\ inp = NoInput
  /\ out = NoRunBefore

\* The process has ended and the program is started again: a new AppState,
\* the files, the directories and the symlink as the last run left them.
NextRun ==
  /\ pc = "done"
  /\ pc' = "index"
  /\ exit' = "running"
  /\ items' = <<>>
  /\ lastCmd' = [cmd |-> "none", target |-> 0, outcome |-> "none"]
  /\ out' = IF lastCmd.cmd = "activate" /\ lastCmd.outcome = "activated"
              THEN [activated |-> TRUE,
                    version |-> items[lastCmd.target].Version,
                    asNamed |-> UnpacksAsNamed(items[lastCmd.target].LocalPath,
                                               items[lastCmd.target].Version),
                    replaced |-> out.activated
                                   /\ ~equal(out.version, items[lastCmd.target].Version)]
              ELSE NoRunBefore
  /\ UNCHANGED <<index, tarballsDir, currentDir, symlink, inp>>

NextRuns == Next \/ NextRun

SpecRuns == InitRuns /\ [][NextRuns]_vars

----------------------------------------------------------------------------
(* Version.equal and Version.lessThan applied to Versions drawn from a       *)
(* bounded set.                                                             *)

World0 ==
  /\ index = <<>>
  /\ tarballsDir = {}
  /\ currentDir = {}
  /\ symlink = [exists |-> FALSE, target |-> <<>>]
  /\ items = <<>>
  /\ exit = "running"
  /\ lastCmd = [cmd |-> "none", target |-> 0, outcome |-> "none"]

\* Releases and dev builds over every (major, minor, patch) up to MaxNum, the
\* dev builds with every build number up to MaxBuild and either of two commits.
OrderVersions ==
  { Release(a, b, c) : a \in 0..MaxNum, b \in 0..MaxNum, c \in 0..MaxNum }
    \cup { DevBuild(a, b, c, n, h) :
             a \in 0..MaxNum, b \in 0..MaxNum, c \in 0..MaxNum,
             n \in 0..MaxBuild, h \in { <<"a">>, <<"b">> } }

InitOrder ==
  /\ World0
  /\ pc = "compare"
  /\ inp \in [a : OrderVersions, b : OrderVersions, c : OrderVersions]
  /\ out = NoInput

\* The comparisons of a with b, b with c and a with c.
Compare ==
  /\ pc = "compare"
  /\ out' = [lt_ab |-> lessThan(inp.a, inp.b), lt_ba |-> lessThan(inp.b, inp.a),
             eq_ab |-> equal(inp.a, inp.b),
             lt_bc |-> lessThan(inp.b, inp.c), lt_ac |-> lessThan(inp.a, inp.c)]
  /\ pc' = "compared"
  /\ UNCHANGED <<index, tarballsDir, currentDir, symlink, items, exit, lastCmd, inp>>

NextOrder == Compare

SpecOrder == InitOrder /\ [][NextOrder]_vars

----------------------------------------------------------------------------
(* ParseVersion applied to texts drawn from a bounded set.                   *)

\* A dot-separated segment: a number up to MaxNum, nothing, or a letter.
Segments == { Itoa(n) : n \in 0..MaxNum } \cup { <<>>, <<"a">> }

\* What may follow the dot-separated segments: nothing, or a "-" and a tag,
\* well formed or not.
Suffixes ==
  { <<>>,
    <<"-","d","e","v">>,
    <<"-","d","e","v",".","1">>,
    <<"-","d","e","v",".","1","+">>,
    <<"-","d","e","v",".","1","+","a">>,
    <<"-","d","e","v",".","a","+","a">>,
    <<"-","d","e","v",".","+","a">>,
    <<"-","d","e","v","+","a">> }

ParseTexts ==
  { Join(segs, <<".">>) \o suffix :
      segs \in UNION { [1..n -> Segments] : n \in 1..MaxDotSegs }, suffix \in Suffixes }

InitParse ==
  /\ World0
  /\ pc = "parse"
  /\ inp \in ParseTexts
  /\ out = NoInput

Parse ==
  /\ pc = "parse"
  /\ out' = ParseVersion(inp)
  /\ pc' = "parsed"
  /\ UNCHANGED <<index, tarballsDir, currentDir, symlink, items, exit, lastCmd, inp>>

NextParse == Parse

SpecParse == InitParse /\ [][NextParse]_vars

----------------------------------------------------------------------------
(* extractedDirForVersion and the name parser of the current-install fold    *)
(* applied to Versions and hosts drawn from bounded sets.                    *)

\* The values of runtime.GOOS and runtime.GOARCH that getHostOs, getHostArch
\* and GetFileEntryForHost all accept.
HostPairs ==
  { h \in [goos : { "linux", "darwin", "windows" }, goarch : { "386", "amd64", "arm64" }] :
      GetFileEntryForHost(IndexEntry(<<>>, NilFile), h.goos, h.goarch).kind = "ok" }

InitName ==
  /\ World0
  /\ pc = "derive"
  /\ inp \in [host : HostPairs, v : OrderVersions]
  /\ out = NoInput

\* commandActivateItem, line 499: the directory the symlink points into.
DeriveName ==
  /\ pc = "derive"
  /\ out' = [name |-> BaseName(extractedDirForVersion(inp.v, inp.host.goos, inp.host.goarch))]
  /\ pc' = "derived"
  /\ UNCHANGED <<index, tarballsDir, currentDir, symlink, items, exit, lastCmd, inp>>

\* run(), lines 634-645: the current-install fold reading the name of a
\* directory: the prefix test, the split on "-" and ParseVersion.
ReadName ==
  /\ pc = "derived"
  /\ LET tag == VersionTagOf(out.name)
         parsed == IF tag.kind = "ok" THEN ParseVersion(tag.tag)
                   ELSE [kind |-> "panic", ver |-> ZeroVersion]
     IN  out' = [name |-> out.name,
                 prefixed |-> HasPrefix(out.name, <<"z", "i", "g">>),
                 tag |-> tag.tag,
                 parsed |-> parsed]
  /\ pc' = "read"
  /\ UNCHANGED <<index, tarballsDir, currentDir, symlink, items, exit, lastCmd, inp>>

NextName == DeriveName \/ ReadName

SpecName == InitName /\ [][NextName]_vars

----------------------------------------------------------------------------
(* Properties of reconciliation. *)

\* Reconciliation is over: the three folds and the sort ran without a panic
\* and no command handler has run yet.
Reconciled == pc = "command"

\* C1: after reconciliation no two Items of the inventory have Versions that
\* are equal under Version.equal.
C1_NoTwoItemsEqual ==
  Reconciled =>
    \A i, j \in 1..Len(items) : i # j => ~equal(items[i].Version, items[j].Version)

\* C2: in every reconciled inventory an Item that is current is downloaded.
C2_CurrentImpliesDownloaded ==
  Reconciled => \A i \in 1..Len(items) : items[i].Current => items[i].Downloaded

----------------------------------------------------------------------------
(* Properties of the Version order. *)

Compared == pc = "compared"

SameTriple(v, w) == v.Major = w.Major /\ v.Minor = w.Minor /\ v.Patch = w.Patch

\* C3: a dev Version is strictly less than a non-dev Version with the same
\* (major, minor, patch): lessThan(dev, release) is true and
\* lessThan(release, dev) is false.
C3_DevLessThanRelease ==
  (Compared /\ SameTriple(inp.a, inp.b) /\ inp.a.Dev /\ ~inp.b.Dev)
    => (out.lt_ab /\ ~out.lt_ba)

\* What the code does in the case of C3: the release is the lesser one.
C3_CodeReleaseLessThanDev ==
  (Compared /\ SameTriple(inp.a, inp.b) /\ inp.a.Dev /\ ~inp.b.Dev)
    => (~out.lt_ab /\ out.lt_ba)

\* C4: lessThan and equal form a total order: exactly one of lessThan(a, b),
\* equal(a, b), lessThan(b, a) holds, and lessThan is transitive.
C4_TotalOrder ==
  Compared =>
    /\ \/ (out.lt_ab /\ ~out.eq_ab /\ ~out.lt_ba)
       \/ (~out.lt_ab /\ out.eq_ab /\ ~out.lt_ba)
       \/ (~out.lt_ab /\ ~out.eq_ab /\ out.lt_ba)
    /\ (out.lt_ab /\ out.lt_bc) => out.lt_ac

\* A chain a < b < c through a release and dev builds of one triple that
\* differ in build number, and a pair of dev builds equal up to the commit.
C4_Witness ==
  /\ Compared
  /\ out.lt_ab /\ out.lt_bc
  /\ SameTriple(inp.a, inp.b) /\ SameTriple(inp.b, inp.c)
  /\ ~inp.a.Dev /\ inp.b.Dev /\ inp.c.Dev
  /\ inp.b.Commit # inp.c.Commit

C4_WitnessEqualUpToCommit ==
  /\ Compared
  /\ out.eq_ab
  /\ inp.a.Dev /\ inp.a.Commit # inp.b.Commit

----------------------------------------------------------------------------
(* Properties of the remote index fold. *)

\* The remote index fold is over and no other fold has run.
IndexFolded == pc = "tarballs"

\* The catalog keys of the records with a descriptor for the host.
HostKeys ==
  { k \in DOMAIN index : GetFileEntryForHost(index[k], GOOS, GOARCH).file.present }

\* The Items the fold made of the record keyed k: those with its tarball URL.
ItemsOfRecord(k) ==
  LET url == GetFileEntryForHost(index[k], GOOS, GOARCH).file.Tarball
  IN  { i \in 1..Len(items) : items[i].RemoteUrl = url }

\* C5: for every catalog record with a host descriptor, a record with an empty
\* version string takes the catalog key as version string and its Item has
\* master=true; a record with a version string makes an Item with master=false.
C5_EmptyVersionIsMaster ==
  IndexFolded =>
    \A k \in HostKeys :
      \E i \in ItemsOfRecord(k) :
        IF index[k].Version = <<>>
          THEN items[i].Version = ParseVersion(k).ver /\ items[i].Master
          ELSE ~items[i].Master

\* C5 as the code has it: a record with an empty version string takes the
\* catalog key as version string and its Item has master=false; a record with
\* a version string takes that string and its Item has master=true.
C5_ExplicitVersionIsMaster ==
  IndexFolded =>
    \A k \in HostKeys :
      /\ Cardinality(ItemsOfRecord(k)) = 1
      /\ \A i \in ItemsOfRecord(k) :
           IF index[k].Version = <<>>
             THEN items[i].Version = ParseVersion(k).ver /\ ~items[i].Master
             ELSE items[i].Version = ParseVersion(index[k].Version).ver /\ items[i].Master

\* An index with a record of each kind, both folded into Items.
C5_Witness ==
  /\ IndexFolded
  /\ \E k1, k2 \in HostKeys : index[k1].Version = <<>> /\ index[k2].Version # <<>>

----------------------------------------------------------------------------
(* Properties of the download command. *)

\* A download command has ended after commandDownloadItem was called on an
\* Item that only the local tarball fold knows.
DownloadedLocalOnly ==
  /\ pc = "done"
  /\ lastCmd.cmd = "download"
  /\ lastCmd.target > 0
  /\ ~items[lastCmd.target].Indexed
  /\ items[lastCmd.target].Downloaded

\* C6: download on an Item that came only from the local tarball directory
\* (indexed=false, downloaded=true) is rejected as "not indexed" with a
\* non-zero exit.
C6_LocalOnlyDownloadRejected ==
  DownloadedLocalOnly => (lastCmd.outcome = "not-indexed" /\ exit = "exit1")

\* A step in which commandDownloadItem is called on an Item with
\* indexed=false and downloaded=true is a successful no-op.
LocalOnlyDownloadStep ==
  ( /\ pc = "command"
    /\ lastCmd'.cmd = "download"
    /\ lastCmd'.target > 0
    /\ ~items[lastCmd'.target].Indexed
    /\ items[lastCmd'.target].Downloaded )
  => ( /\ lastCmd'.outcome = "already-downloaded"
       /\ exit' = "exit0"
       /\ items' = items
       /\ tarballsDir' = tarballsDir
       /\ currentDir' = currentDir
       /\ symlink' = symlink )

\* C6 as the code has it: such a download reports that the tarball is already
\* downloaded, changes neither the Items nor the disk and ends with exit
\* status 0.
C6_LocalOnlyDownloadIsNoOp == [][LocalOnlyDownloadStep]_vars

C6_Witness == DownloadedLocalOnly

----------------------------------------------------------------------------
(* Properties of the whole reconciliation. *)

\* The three folds run from an empty inventory with the index iterated in the
\* given order.
FoldsIn(order) ==
  LET a == IndexFold(<<>>, index, order)
      b == IF a.kind = "ok" THEN TarballFold(a.items, SortedNames(tarballsDir)) ELSE a
  IN  IF b.kind = "ok" THEN CurrentFold(b.items, SortedEntries(currentDir)) ELSE b

\* Every inventory a reconciliation of this index and these directories may
\* produce, over the iteration orders of the index and the results of the sort.
Inventories ==
  UNION { SortOutcomes(r.items) :
            r \in { f \in { FoldsIn(o) : o \in Orders(DOMAIN index) } : f.kind = "ok" } }

\* C7: reconciliation is deterministic: every execution of the folds and the
\* sort on the same index and directories yields the same inventory.
C7_Deterministic == Reconciled => Inventories = { items }

\* The version an archive name of the tarball directory carries.
IsArchive(name) == PathExt(name) = <<".", "x", "z">>

ArchiveVersion(name) == ParseVersion(VersionTagOf(StripTwoExtensions(name)).tag).ver

\* The version of the record keyed k.
RecordVersion(k) == ParseVersion(RecordVersionString(k, index[k])).ver

\* The archives of the tarball directory whose version equals v.
ArchivesOf(v) == { n \in tarballsDir : IsArchive(n) /\ equal(ArchiveVersion(n), v) }

\* The last of a set of names in the order of the directory listing.
LastName(S) == CHOOSE n \in S : \A m \in S \ {n} : StrLess(m, n)

\* C8: a version present in the remote index and in the tarball directory ends
\* up as an Item with indexed=true, downloaded=true and localArchivePath the
\* path of the file found in the tarball directory (the last one listed when
\* several archives carry the version), not the path derived from the URL.
C8_LocalPathWins ==
  Reconciled =>
    \A k \in HostKeys :
      ArchivesOf(RecordVersion(k)) # {} =>
        \E i \in 1..Len(items) :
          /\ equal(items[i].Version, RecordVersion(k))
          /\ items[i].Indexed
          /\ items[i].Downloaded
          /\ items[i].LocalPath = TarballsPath(LastName(ArchivesOf(RecordVersion(k))))

\* An indexed version has an archive whose path differs from the path derived
\* from the record's URL.
C8_Witness ==
  /\ Reconciled
  /\ \E k \in HostKeys :
       /\ ArchivesOf(RecordVersion(k)) # {}
       /\ \E i \in ItemsOfRecord(k) :
            /\ items[i].Downloaded
            /\ items[i].LocalPath # localTarballPathFromUrl(items[i].RemoteUrl)

\* The fields the remote index fold sets, but for LocalPath, are the same.
SameIndexFields(old, new) ==
  /\ new.Version = old.Version
  /\ new.Indexed = old.Indexed
  /\ new.Master = old.Master
  /\ new.RemoteUrl = old.RemoteUrl

\* A step of the local tarball fold or of the current-install fold keeps the
\* fields of SameIndexFields on every indexed Item, and its LocalPath when
\* pathKept(i) holds.
KeepsIndexed(pathKept(_)) ==
  pc \in { "tarballs", "current" } =>
    \A i \in 1..Len(items) :
      items[i].Indexed =>
        (i <= Len(items') /\ SameIndexFields(items[i], items'[i]) /\ pathKept(i))

PathSame(i) == items'[i].LocalPath = items[i].LocalPath

PathSameOrDiscovered(i) ==
  \/ PathSame(i)
  \/ /\ pc = "tarballs"
     /\ items'[i].Downloaded
     /\ \E n \in tarballsDir : items'[i].LocalPath = TarballsPath(n)

\* C9: the local tarball fold and the current-install fold leave every field
\* the remote index fold set (version, indexed, master, remoteArchiveUrl,
\* localArchivePath) unchanged on the Items they match.
C9_EarlierFieldsKept == [][KeepsIndexed(PathSame)]_vars

\* C9 as the code has it: both folds leave version, indexed, master and
\* remoteArchiveUrl of an indexed Item unchanged; the current-install fold
\* leaves localArchivePath unchanged too, and the local tarball fold leaves it
\* unchanged or replaces it by the path of a file of the tarball directory.
C9_EarlierFieldsKeptButLocalPath == [][KeepsIndexed(PathSameOrDiscovered)]_vars

\* An indexed Item that the local tarball fold and the current-install fold
\* both matched.
C9_Witness ==
  /\ pc = "sort"
  /\ \E i \in 1..Len(items) :
       items[i].Indexed /\ items[i].Master /\ items[i].Downloaded /\ items[i].Current

----------------------------------------------------------------------------
(* Properties of ParseVersion. *)

Parsed == pc = "parsed"

IsNumber(s) == Len(s) > 0 /\ \A i \in 1..Len(s) : IsDigit(s[i])

\* A commit hash: letters and digits.
IsCommit(s) ==
  Len(s) > 0 /\ \A i \in 1..Len(s) : s[i] \notin { "+", "-", ".", "/", "_" }

\* The release grammar MAJOR.MINOR.PATCH.
ReleaseForm(t) ==
  LET segs == Split(t, ".")
  IN  Len(segs) = 3 /\ \A i \in 1..3 : IsNumber(segs[i])

\* The dev grammar MAJOR.MINOR.PATCH-dev.BUILD+COMMIT.
DevForm(t) ==
  LET dash == IndexFrom(t, "-", 1)
      tag  == SubSeq(t, dash + 1, Len(t))
      rest == SubSeq(tag, 5, Len(tag))
      plus == Split(rest, "+")
  IN  /\ dash > 0
      /\ ReleaseForm(SubSeq(t, 1, dash - 1))
      /\ HasPrefix(tag, <<"d", "e", "v", ".">>)
      /\ Len(plus) = 2
      /\ IsNumber(plus[1])
      /\ IsCommit(plus[2])

\* C10: ParseVersion returns an error value, and neither a Version nor a
\* panic, for every text that matches neither the release grammar nor the dev
\* grammar.
C10_MalformedIsError ==
  (Parsed /\ ~ReleaseForm(inp) /\ ~DevForm(inp)) => out.kind = "err"

\* What ParseVersion does keep of C10: a text of either grammar is accepted,
\* and a text whose dot-separated segments before the first "-" are not three
\* is an error.
C10_CodeAcceptsGrammar ==
  Parsed =>
    /\ (ReleaseForm(inp) \/ DevForm(inp)) => out.kind = "ok"
    /\ Len(Split(Split(inp, "-")[1], ".")) # 3 => out.kind = "err"

----------------------------------------------------------------------------
(* C11: the order of the steps of an activation. *)

\* The archive of Items[i] is in the tarball directory.
ArchiveOnDisk(i) == BaseName(items[i].LocalPath) \in tarballsDir

\* One step of a run, seen from the activation of an Item that is not current.
ActivateOrderStep ==
  \* the archive is there, and the Item downloaded, before the directory is cleared
  /\ pc' = "clear" =>
        /\ pc = "command"
        /\ ~items[lastCmd'.target].Current
        /\ items'[lastCmd'.target].Downloaded
        /\ BaseName(items'[lastCmd'.target].LocalPath) \in tarballsDir'
        /\ currentDir' = currentDir /\ symlink' = symlink
  \* the directory is cleared before the extraction, and by nothing else
  /\ pc' = "extract" => pc = "clear" /\ currentDir' = {}
  /\ currentDir' # currentDir => pc \in { "clear", "extract" }
  \* the symlink is touched only after the extraction succeeded
  /\ pc' = "link" =>
        /\ pc = "extract"
        /\ currentDir' = Unpacked(items[lastCmd.target].LocalPath)
        /\ symlink' = symlink
  /\ symlink' # symlink => pc = "link"
  \* a failed download or a rejected Item ends the run before the clear
  /\ (pc = "command" /\ lastCmd'.cmd = "activate"
        /\ lastCmd'.outcome \in { "download-failed", "not-indexed" }) =>
        /\ pc' = "done" /\ exit' \in { "panic", "exit1" }
        /\ currentDir' = currentDir /\ symlink' = symlink
  \* a failed extraction aborts with the old entries gone and the symlink as it was
  /\ (pc = "extract" /\ pc' = "done") =>
        /\ lastCmd'.outcome = "extract-failed" /\ exit' = "panic"
        /\ currentDir = {}
        /\ currentDir' \subseteq Unpacked(items[lastCmd.target].LocalPath)
        /\ symlink' = symlink

\* C11: in an activation of an Item that is not current the archive is made
\* available before the current-install directory is cleared, the clear comes
\* before the extraction, the symlink is replaced only after the extraction
\* succeeded; a failed download leaves the directory and the symlink as they
\* were, and a failed extraction aborts the run with the directory cleared.
C11_ActivateOrder == [][ActivateOrderStep]_vars

\* An activation that went through every step: the archive is on disk, the
\* directory holds what it unpacked to and the symlink points into it.
C11_Witness ==
  /\ pc = "done" /\ lastCmd.cmd = "activate" /\ lastCmd.outcome = "activated"
  /\ items[lastCmd.target].Indexed /\ ArchiveOnDisk(lastCmd.target)
  /\ currentDir = Unpacked(items[lastCmd.target].LocalPath)
  /\ symlink.exists /\ symlink.target = LinkTarget(items[lastCmd.target].Version)

----------------------------------------------------------------------------
(* C12: activating the Item that is current. *)

\* The step of an activate command whose Item is current.
ActivateCurrentStep ==
  (pc = "command" /\ lastCmd'.cmd = "activate" /\ lastCmd'.target # 0
     /\ items[lastCmd'.target].Current) =>
    /\ items' = items
    /\ tarballsDir' = tarballsDir
    /\ currentDir' = currentDir
    /\ symlink' = symlink
    /\ lastCmd'.outcome = "already-active"
    /\ pc' = "done"
    /\ exit' = "exit0"

\* C12: activating an Item with Current set downloads nothing, leaves the
\* current-install directory, the symlink and every Item as they are and ends
\* the process with status 0.
C12_ActivateCurrentIsNoOp == [][ActivateCurrentStep]_vars

\* The activate of a current Item that is not downloaded has ended: nothing
\* was downloaded, the install directory still holds its entry.
C12_Witness ==
  /\ pc = "done" /\ exit = "exit0"
  /\ lastCmd.cmd = "activate" /\ lastCmd.outcome = "already-active"
  /\ items[lastCmd.target].Current /\ ~items[lastCmd.target].Downloaded
  /\ tarballsDir = {} /\ currentDir # {}

----------------------------------------------------------------------------
(* C13: an install directory whose version no Item has. *)

\* The "zig"-prefixed subdirectories of the current-install directory.
ZigDirs == { e \in currentDir : HasPrefix(e.name, <<"z", "i", "g">>) /\ e.isDir }

\* The one os.ReadDir lists first.
FirstZigDir == CHOOSE e \in ZigDirs : \A y \in ZigDirs \ {e} : StrLess(e.name, y.name)

\* The version embedded in the name of e parses and no Item has it.
Unmatched(e) ==
  LET tag == VersionTagOf(e.name)
      parsed == ParseVersion(tag.tag)
  IN  /\ tag.kind = "ok"
      /\ parsed.kind = "ok"
      /\ GetItemByVersion(items, parsed.ver) = 0

\* The current-install fold aborts the run and marks nothing.
FoldAborts ==
  /\ pc' = "done" /\ exit' = "panic"
  /\ lastCmd' = [lastCmd EXCEPT !.outcome = "current-fold-panic"]
  /\ \A i \in 1..Len(items') : ~items'[i].Current

AnyUnmatchedAborts ==
  (pc = "current" /\ pc' # pc /\ \E e \in ZigDirs : Unmatched(e)) => FoldAborts

FirstUnmatchedAborts ==
  (pc = "current" /\ pc' # pc /\ ZigDirs # {} /\ Unmatched(FirstZigDir)) => FoldAborts

\* C13 as stated: when the current-install directory contains a "zig"-prefixed
\* subdirectory whose version matches no Item of the index fold and the
\* tarball fold, reconciliation aborts before any command and marks no Item
\* current.
C13_AnyUnmatchedAborts == [][AnyUnmatchedAborts]_vars

\* C13 amended: when the first "zig"-prefixed subdirectory of the
\* current-install directory, in the order of the listing, has a version that
\* matches no Item, reconciliation aborts before any command and marks no Item
\* current; later subdirectories are not looked at.
C13_FirstUnmatchedAborts == [][FirstUnmatchedAborts]_vars

\* The fold has aborted on an install directory no Item matches, with Items
\* in the inventory.
C13_Witness ==
  /\ pc = "done" /\ exit = "panic" /\ lastCmd.outcome = "current-fold-panic"
  /\ ZigDirs # {} /\ Unmatched(FirstZigDir)
  /\ Len(items) > 0

----------------------------------------------------------------------------
(* C14: the order of the inventory. *)

\* The order the specification gives Versions: by (major, minor, patch); with
\* the same triple a dev Version is below the release and dev Versions go by
\* their build numbers.
Section3Less(v, w) ==
  IF v.Major # w.Major THEN v.Major < w.Major
  ELSE IF v.Minor # w.Minor THEN v.Minor < w.Minor
  ELSE IF v.Patch # w.Patch THEN v.Patch < w.Patch
  ELSE IF v.Dev /\ w.Dev THEN v.Build < w.Build
  ELSE v.Dev /\ ~w.Dev

\* C14: after reconciliation the inventory is sorted descending: for all
\* positions i < j the Version at i is not less than the Version at j, a
\* release ranking above every dev Version of its (major, minor, patch).
C14_SortedDescending ==
  Reconciled =>
    \A i, j \in 1..Len(items) :
      i < j => ~Section3Less(items[i].Version, items[j].Version)

----------------------------------------------------------------------------
(* C15: the fresh machine. *)

FreshMachine == tarballsDir = {} /\ currentDir = {}

\* The index holds a release record keyed by its version, without a version
\* field, and a "master" record whose version field is a dev version.
ReleaseAndMasterIndex(k) ==
  /\ DOMAIN index = { k, MasterKey }
  /\ k # MasterKey
  /\ index[k].Version = <<>>
  /\ ParseVersion(k).kind = "ok" /\ ~ParseVersion(k).ver.Dev
  /\ index[MasterKey].Version # <<>>
  /\ ParseVersion(index[MasterKey].Version).kind = "ok"
  /\ ParseVersion(index[MasterKey].Version).ver.Dev

\* Every record of the index has an archive for the host.
AllForHost ==
  \A k \in DOMAIN index : GetFileEntryForHost(index[k], GOOS, GOARCH).file.present

TripleLess(v, w) ==
  IF v.Major # w.Major THEN v.Major < w.Major
  ELSE IF v.Minor # w.Minor THEN v.Minor < w.Minor
  ELSE v.Patch < w.Patch

\* One Item per record, indexed only, the one of "master" with Master set,
\* the higher (major, minor, patch) first.
FreshInventory(k) ==
  LET rel == ParseVersion(k).ver
      dev == ParseVersion(index[MasterKey].Version).ver
  IN  /\ Len(items) = 2
      /\ \A i \in 1..2 :
           /\ items[i].Indexed /\ ~items[i].Downloaded /\ ~items[i].Current
           /\ items[i].Master <=> items[i].Version = dev
           /\ ~items[i].Master <=> items[i].Version = rel
      /\ Cardinality({ i \in 1..2 : items[i].Master }) = 1
      /\ ~TripleLess(items[1].Version, items[2].Version)

\* C15 as stated: on a fresh machine with an index of a release record and a
\* "master" record with a dev version string, the inventory has one Item per
\* record, each indexed, not downloaded and not current, the one of "master"
\* alone with Master set, and the higher (major, minor, patch) first.
C15_FreshMachine ==
  \A k \in DOMAIN index :
    (Reconciled /\ FreshMachine /\ ReleaseAndMasterIndex(k)) => FreshInventory(k)

\* C15 amended: the same, for records that each have an archive for the host;
\* a record without one gives no Item.
C15_FreshMachineForHost ==
  \A k \in DOMAIN index :
    (Reconciled /\ FreshMachine /\ ReleaseAndMasterIndex(k) /\ AllForHost)
      => FreshInventory(k)

\* The fresh machine reconciled: the dev build of "master" before an older
\* release.
C15_Witness ==
  /\ Reconciled /\ FreshMachine /\ AllForHost
  /\ \E k \in DOMAIN index : ReleaseAndMasterIndex(k) /\ FreshInventory(k)
  /\ Len(items) = 2 /\ items[1].Master /\ TripleLess(items[2].Version, items[1].Version)

----------------------------------------------------------------------------
(* C16: the Items with Master set. *)

Masters == { i \in 1..Len(items) : items[i].Master }

\* C16: after reconciliation of any remote index at most one Item has Master
\* set, so that the master commands select a unique Item.
C16_AtMostOneMaster == Reconciled => Cardinality(Masters) <= 1

----------------------------------------------------------------------------
(* C18: the rejection of an Item that is not indexed. *)

\* C18: every Item of the inventory is indexed or downloaded, and no download
\* or activate command ends with the rejection "Item not indexed" of
\* commandDownloadItem, which is tested only after the test of Downloaded.
C18_NotIndexedUnreachable ==
  /\ \A i \in 1..Len(items) : items[i].Indexed \/ items[i].Downloaded
  /\ lastCmd.outcome # "not-indexed"
  /\ (pc = "done" /\ lastCmd.cmd \in { "download", "activate" } /\ lastCmd.target # 0
        /\ ~items[lastCmd.target].Indexed) => exit # "exit1"

\* Commands have gone through commandDownloadItem and commandActivateItem
\* with an Item that is not indexed: an activation of it has completed.
C18_Witness ==
  /\ pc = "done" /\ lastCmd.cmd = "activate" /\ lastCmd.outcome = "activated"
  /\ ~items[lastCmd.target].Indexed /\ items[lastCmd.target].Downloaded

----------------------------------------------------------------------------
(* C19: the Items with Current set. *)

Currents == { i \in 1..Len(items) : items[i].Current }

\* The version in the name of the first "zig"-prefixed subdirectory.
FirstInstallVersion == ParseVersion(VersionTagOf(FirstZigDir.name).tag).ver

\* C19: after reconciliation at most one Item has Current set, whatever the
\* current-install directory holds: right after the current-install fold it
\* is the first Item that has the version of the first "zig"-prefixed
\* subdirectory and no other, and none when there is no such subdirectory;
\* the sort keeps it the only one.
C19_AtMostOneCurrent ==
  /\ pc = "sort" =>
        Currents = IF ZigDirs = {} THEN {}
                   ELSE { GetItemByVersion(items, FirstInstallVersion) }
  /\ Reconciled =>
        /\ Cardinality(Currents) <= 1
        /\ ZigDirs = {} => Currents = {}
        /\ \A i \in Currents : equal(items[i].Version, FirstInstallVersion)

\* Reconciled with two "zig"-prefixed subdirectories in the current-install
\* directory and one Item marked.
C19_Witness ==
  /\ Reconciled
  /\ Cardinality(ZigDirs) >= 2
  /\ Cardinality(Currents) = 1

\* Reconciled with two Items that have the version of the subdirectory, one
\* of them marked.
C19_WitnessTwoMatches ==
  /\ Reconciled
  /\ Cardinality(Currents) = 1
  /\ Cardinality({ i \in 1..Len(items) : equal(items[i].Version, FirstInstallVersion) }) >= 2

----------------------------------------------------------------------------
(* C20: the name of the extracted directory read back. *)

NameRead == pc = "read"

\* C20: for every supported host and every Version v the name
\* extractedDirForVersion derives for v is read back by the name parser of
\* the current-install fold as a Version equal to v, the amd64 host with its
\* tag "x86-64" included.
C20_NameRoundTrip ==
  NameRead =>
    /\ out.prefixed
    /\ out.parsed.kind = "ok"
    /\ equal(out.parsed.ver, inp.v)

\* What the code does: the round trip holds on the hosts whose tag has no
\* "-" and fails on every amd64 host, where the parser is given "64-" and
\* the version.
C20_CodeRoundTripButAmd64 ==
  NameRead =>
    IF inp.host.goarch = "amd64"
      THEN /\ out.tag = <<"6", "4", "-">> \o VersionText(inp.v)
           /\ out.parsed.kind # "ok"
      ELSE /\ out.tag = VersionText(inp.v)
           /\ out.parsed.kind = "ok"
           /\ out.parsed.ver = inp.v

----------------------------------------------------------------------------
(* C17: the run after an activation. *)

\* The run before this one activated a Version whose archive unpacked as named.
AfterActivation == out.activated /\ out.asNamed

\* C17: after an activation of an Item with version v has completed, its
\* archive unpacking to one directory named zig-<os>-<arch>-<version string
\* of v>, the next reconciliation with the same index on the disk the
\* activation left completes and gives an Item for v that is current and
\* downloaded, and no other Item is current; whatever was active before and
\* whatever runs came earlier.
C17_ActivatedIsCurrentNextRun ==
  /\ (AfterActivation /\ pc = "done")
       => lastCmd.outcome \notin { "index-fold-panic", "tarball-fold-panic", "current-fold-panic" }
  /\ (AfterActivation /\ Reconciled) =>
       \E i \in 1..Len(items) :
         /\ equal(items[i].Version, out.version)
         /\ items[i].Current /\ items[i].Downloaded
         /\ \A j \in 1..Len(items) : items[j].Current => j = i

\* The reconciliation after an activation that replaced another active
\* version, in an inventory of several Items.
C17_Witness ==
  /\ AfterActivation /\ Reconciled
  /\ out.replaced
  /\ Len(items) >= 2
  /\ symlink.exists /\ symlink.target = LinkTarget(out.version)
  /\ \E i \in 1..Len(items) :
       items[i].Current /\ items[i].Indexed /\ equal(items[i].Version, out.version)

====
